---------------------------- MODULE Spec2Model ----------------------------
(***************************************************************************)
(* InjuryGuard AI: the streaming telemetry client of the React front end.  *)
(*                                                                         *)
(* The model follows App (the session channel, the telemetry processor,    *)
(* the notification dispatcher, the session aggregator) and VideoFeed (the *)
(* frame transmitter).  JavaScript runs one handler at a time, so every    *)
(* handler is one atomic action; React state updaters queued by a handler  *)
(* are applied by the render that follows it, before the next handler.     *)
(***************************************************************************)
EXTENDS Integers, Sequences, FiniteSets, Bags, TLC

(***************************************************************************)
(* Program constants.                                                      *)
(***************************************************************************)
BaseDelay == 1000
DelayCap == 10000
HistoryCap == 60
AlertCap == 50
PostureCooldown == 5000
CoachCooldown == 15000
HazardCooldown == 5000
BannerDelay == 4000
StreakGoal == 50
LowRisk == 20
HighRisk == 40
HazardRisk == 80
HazardSpeed == 30
NumCompliments == 5

(***************************************************************************)
(* Bounds of the model.                                                    *)
(***************************************************************************)
\* Date.now() when the page loads (any value above the longest cooldown)
Epoch == 100000
\* sockets that may be CONNECTING, OPEN or CLOSING at the same time
MaxLive == 2
\* Spec: reconnects tried without an open before sockets stop failing,
\* pending reconnect callbacks, ms after load when no reconnect is scheduled
MaxAttempts == 2
MaxTimers == 2
MaxElapsed == 3000
\* SpecRetry: the same horizon, long enough for the capped delay
RetryLive == 1
RetryAttempts == 5
RetryTimers == 1
RetryElapsed == 26000
\* SpecLive: the same horizon, and sockets plus pending reconnects
LiveSlots == 1
LiveAttempts == 5
LiveTimers == 1
LiveElapsed == 26000
\* SpecFrames: the same horizon, and the camera's
FrameLive == 1
FrameAttempts == 1
FrameTimers == 1
FrameElapsed == 1000
MaxPendingCam == 1
MaxIntervals == 1
\* SpecBuf: readings per session, length of the repeated pattern of readings
MaxBufReadings == 104
PatternLen == 3
SessLive == 1
SessAttempts == 1
SessTimers == 1
SessElapsed == 1150
MaxSessReadings == 2
MaxVoiceReadings == 112
VoicePattern == 1
VoiceGap == 250
MaxSummaryReadings == 4
MaxLerpSteps == 3
MaxStreakReadings == 52
MaxSportReadings == 2
MaxBannerReadings == 3
MaxPercent == 100
BannerGap == 1500
BannerElapsed == 6000
StreakPattern == 2
MaxLandmarks == 2
SummaryGap == 62500
SummaryElapsed == 125000

Sports == {"generic", "cricket"}
HazardSport == "cricket"
Slots == 1..MaxLive

VARIABLES
    streaming,            \* useState(false), part_000:20
    sport,                \* useState('generic')
    analysis,             \* <<>> is null, <<data>> the snapshot
    alerts,               \* newest first
    connected,
    riskHistory,          \* oldest first
    sessionStats,         \* <<>> is null
    isMuted,              \* isMutedRef.current and the isMuted state
    goodStreak,
    postureWarning,       \* "" is null
    wsRef,                \* 0: null or a socket that is CLOSED; else a slot
    startTimeRef,         \* 0 is null
    lastCoachTime,
    lastPostureAlertTime,
    reconnectAttempts,
    conns,                \* the sockets that are not CLOSED
    timers,               \* bag of pending setTimeout callbacks
    cbSport,              \* sport captured by the memoised connectWS
    speaking,             \* window.speechSynthesis.speaking
    hasCamera,            \* VideoFeed useState(true)
    camStreaming,         \* the streaming prop the VideoFeed effect last ran for
    pendingCam,           \* bag (by captured sport) of pending getUserMedia
    intervalRef,          \* <<>> is null, <<s>> the interval whose onFrame captured s
    leaked,               \* running intervals no ref points to, by captured sport
    now,                  \* Date.now()
    received,             \* history: readings handled since the last start
    out,                  \* what the last handler did to the outside
    smoothedRef,          \* AROverlay useRef(null); <<>> is null
    lerpTrace,            \* history: the smoothing steps towards the current target
    painted               \* the last value coloured: by which function, as what

vars == <<streaming, sport, analysis, alerts, connected, riskHistory,
          sessionStats, isMuted, goodStreak, postureWarning, wsRef,
          startTimeRef, lastCoachTime, lastPostureAlertTime,
          reconnectAttempts, conns, timers, cbSport, speaking, hasCamera,
          camStreaming, pendingCam, intervalRef, leaked, now, received, out,
          smoothedRef, lerpTrace, painted>>

(***************************************************************************)
(* Small helpers.                                                          *)
(***************************************************************************)
Min(a, b) == IF a < b THEN a ELSE b

Max(a, b) == IF a > b THEN a ELSE b

RECURSIVE Pow2(_)
Pow2(n) == IF n = 0 THEN 1 ELSE 2 * Pow2(n - 1)

\* Array.prototype.slice(-n)
SliceLast(s, n) == IF Len(s) <= n THEN s ELSE SubSeq(s, Len(s) - n + 1, Len(s))

\* Array.prototype.slice(0, n)
SliceFirst(s, n) == IF Len(s) <= n THEN s ELSE SubSeq(s, 1, n)

NoOut == [act |-> "init", opened |-> 0, frames |-> <<>>, ctrl |-> <<>>,
          said |-> <<>>, cancels |-> 0, tone |-> 0, scheduled |-> <<>>]

FreeConn == [st |-> "FREE", sport |-> "generic"]

LiveStates == {"CONNECTING", "OPEN"}

\* wsRef.current?.readyState
ReadyState == IF wsRef = 0 THEN "CLOSED" ELSE conns[wsRef].st

FreeSlots == {c \in Slots : conns[c].st = "FREE"}

NextSlot == CHOOSE c \in FreeSlots : \A d \in FreeSlots : c <= d

ReconnectTimers == {t \in BagToSet(timers) : t.kind = "reconnect"}

NumReconnectTimers == BagCardinality(timers) -
    BagCardinality([t \in {u \in BagToSet(timers) : u.kind # "reconnect"} |-> timers[t]])

BagAdd(b, x) == b (+) SetToBag({x})

BagRemove(b, x) == b (-) SetToBag({x})

(***************************************************************************)
(* Session channel.                                                        *)
(***************************************************************************)
\* part_000:88  if (wsRef.current?.readyState === WebSocket.OPEN) return
ConnectReturnsEarly == ReadyState = "OPEN"

\* part_000:90, 204  const ws = new WebSocket(WS_URL) ... wsRef.current = ws
ConnsAfterConnect(sp) ==
    IF ConnectReturnsEarly THEN conns
    ELSE [conns EXCEPT ![NextSlot] = [st |-> "CONNECTING", sport |-> sp]]

WsRefAfterConnect == IF ConnectReturnsEarly THEN wsRef ELSE NextSlot

OpenedByConnect == IF ConnectReturnsEarly THEN 0 ELSE 1

CanConnect == ConnectReturnsEarly \/ FreeSlots # {}

LiveCount == Cardinality(Slots \ FreeSlots)

\* a specification lets at most k sockets be live at the same time
RoomFor(k) == ConnectReturnsEarly \/ LiveCount < k

\* a backoff that grows by the base delay instead of doubling
ReconnectDelayLinear(attempt) == Min(BaseDelay * (attempt + 1), DelayCap)

\* part_000:189  Math.min(1000 * Math.pow(2, reconnectAttempts.current), 10000)
ReconnectDelay(attempt) == Min(BaseDelay * Pow2(attempt), DelayCap)


\* a client that gives up after two reconnects without an open
OnCloseTimersGiveUp(c) ==
    IF streaming /\ reconnectAttempts < 2
    THEN BagAdd(timers, [kind |-> "reconnect",
                         delay |-> ReconnectDelay(reconnectAttempts),
                         due |-> now + ReconnectDelay(reconnectAttempts),
                         sport |-> conns[c].sport])
    ELSE timers

\* part_000:182-198  ws.onclose (after ws.onerror when the socket failed):
\* the socket is CLOSED; a reconnect is scheduled when streaming is on.
OnCloseTimers(c) ==
    IF streaming
    THEN BagAdd(timers, [kind |-> "reconnect",
                         delay |-> ReconnectDelay(reconnectAttempts),
                         due |-> now + ReconnectDelay(reconnectAttempts),
                         sport |-> conns[c].sport])
    ELSE timers

\* the horizon of a specification: while streaming is on, sockets stop
\* closing once maxAttempts reconnects were tried without an open, maxTimers
\* reconnects are pending, or the reconnect would be due after maxElapsed
WithinHorizon(maxAttempts, maxTimers, maxElapsed) ==
    streaming =>
        /\ reconnectAttempts < maxAttempts
        /\ NumReconnectTimers < maxTimers
        /\ now + ReconnectDelay(reconnectAttempts) <= Epoch + maxElapsed

\* part_000:92-96  ws.onopen
OnOpen(c) ==
    /\ conns[c].st = "CONNECTING"
    /\ conns' = [conns EXCEPT ![c].st = "OPEN"]
    /\ connected' = TRUE
    /\ reconnectAttempts' = 0
    /\ out' = [NoOut EXCEPT !.act = "open"]
    /\ UNCHANGED <<streaming, sport, analysis, alerts, riskHistory,
                   sessionStats, isMuted, goodStreak, postureWarning, wsRef,
                   startTimeRef, lastCoachTime, lastPostureAlertTime, timers,
                   cbSport, speaking, hasCamera, camStreaming, pendingCam, intervalRef,
                   leaked, now, received,
                   smoothedRef, lerpTrace, painted>>

\* part_000:182-202  the close event of socket c (preceded by its error event
\* when the socket failed): a CONNECTING socket that cannot open, an OPEN
\* socket that drops, or a CLOSING socket whose close() completes.
OnClose(c) ==
    /\ conns[c].st # "FREE"
    /\ conns' = [conns EXCEPT ![c] = FreeConn]
    /\ wsRef' = IF wsRef = c THEN 0 ELSE wsRef
    /\ connected' = FALSE
    /\ timers' = OnCloseTimers(c)
    /\ out' = [NoOut EXCEPT !.act = "close",
                            !.scheduled = IF streaming
                                          THEN <<ReconnectDelay(reconnectAttempts)>>
                                          ELSE <<>>]
    /\ UNCHANGED <<streaming, sport, analysis, alerts, riskHistory,
                   sessionStats, isMuted, goodStreak, postureWarning,
                   startTimeRef, lastCoachTime, lastPostureAlertTime,
                   reconnectAttempts, cbSport, speaking, hasCamera, camStreaming,
                   pendingCam, intervalRef, leaked, now, received,
                   smoothedRef, lerpTrace, painted>>

\* part_000:191-194  the setTimeout callback of ws.onclose
ReconnectFire(t) ==
    /\ t \in ReconnectTimers
    /\ now >= t.due
    /\ CanConnect
    /\ timers' = BagRemove(timers, t)
    /\ reconnectAttempts' = reconnectAttempts + 1
    /\ conns' = ConnsAfterConnect(t.sport)
    /\ wsRef' = WsRefAfterConnect
    /\ out' = [NoOut EXCEPT !.act = "reconnect", !.opened = OpenedByConnect]
    /\ UNCHANGED <<streaming, sport, analysis, alerts, connected, riskHistory,
                   sessionStats, isMuted, goodStreak, postureWarning,
                   startTimeRef, lastCoachTime, lastPostureAlertTime, cbSport,
                   speaking, hasCamera, camStreaming, pendingCam, intervalRef,
                   leaked, now, received,
                   smoothedRef, lerpTrace, painted>>


(***************************************************************************)
(* Session aggregator.                                                     *)
(***************************************************************************)
RECURSIVE SumRisk(_)
SumRisk(h) == IF h = <<>> THEN 0 ELSE Head(h).risk + SumRisk(Tail(h))

RECURSIVE MaxRisk(_)
MaxRisk(h) == IF h = <<>> THEN 0 ELSE Max(Head(h).risk, MaxRisk(Tail(h)))

\* a formatting that cuts the decimals off
ToFixed0Trunc(a, b) == a \div b

\* Number.prototype.toFixed(0) of the non-negative quotient a / b
ToFixed0(a, b) == (2 * a + b) \div (2 * b)

\* a || b on strings
OrElse(a, b) == IF a # "" THEN a ELSE b

\* the RED alerts, oldest first
RedAlertsOldestFirst ==
    LET red == SelectSeq(alerts, LAMBDA a : a.alert_level = "RED")
    IN  [i \in 1..Len(red) |-> red[Len(red) + 1 - i]]

\* alerts.filter(a => a.alert_level === 'RED')
RedAlerts == SelectSeq(alerts, LAMBDA a : a.alert_level = "RED")

\* part_000:230-252
SessionSummary ==
    LET durationSec == (now - startTimeRef) \div 1000
        n == Len(riskHistory)
    IN  [min |-> durationSec \div 60,
         sec |-> durationSec % 60,
         avgScore |-> ToFixed0(Max(0, 100 * n - SumRisk(riskHistory)), n),
         peakRisk |-> MaxRisk(riskHistory),
         alertCount |-> Len(alerts),
         mostDangerousAct |->
            IF Len(alerts) = 0 THEN "None detected."
            ELSE IF Len(RedAlerts) > 0
                 THEN OrElse(RedAlerts[1].alert_message,
                             OrElse(RedAlerts[1].injury_type,
                                    "High risk activity detected"))
                 ELSE OrElse(alerts[1].alert_message, "Warning triggered"),
         suggestion |->
            IF Len(alerts) = 0 THEN "Maintain this level of safety."
            ELSE IF Len(RedAlerts) > 0
                 THEN "Focus on form correction and avoid sudden, jerky movements."
                 ELSE "Pay attention to minor form deviations before they escalate."]

(***************************************************************************)
(* toggleStreaming.                                                        *)
(***************************************************************************)
\* a start that leaves the previous session's points in the risk history
HistoryKeptAtStart == riskHistory

\* part_000:223  setRiskHistory([])
HistoryAfterStart == <<>>

\* part_000:224  setAlerts([])
AlertsAfterStart == <<>>

\* part_000:221-226, 255
Start ==
    /\ ~streaming
    /\ CanConnect
    /\ conns' = ConnsAfterConnect(cbSport)
    /\ wsRef' = WsRefAfterConnect
    /\ riskHistory' = HistoryAfterStart
    /\ alerts' = AlertsAfterStart
    /\ sessionStats' = <<>>
    /\ startTimeRef' = now
    /\ streaming' = TRUE
    /\ received' = <<>>
    /\ out' = [NoOut EXCEPT !.act = "start", !.opened = OpenedByConnect]
    /\ UNCHANGED <<sport, analysis, connected, isMuted, goodStreak,
                   postureWarning, lastCoachTime, lastPostureAlertTime,
                   reconnectAttempts, timers, cbSport, speaking, hasCamera, camStreaming,
                   pendingCam, intervalRef, leaked, now,
                   smoothedRef, lerpTrace, painted>>

\* part_000:228  wsRef.current?.close()
ConnsAfterClose ==
    IF ReadyState \in LiveStates
    THEN [conns EXCEPT ![wsRef].st = "CLOSING"]
    ELSE conns

\* part_000:86, 227-255  what the stop branch leaves in reconnectAttempts
AttemptsAfterStop == reconnectAttempts

\* part_000:191-194, 227-255  what the stop branch leaves of the pending timers
TimersAfterStop == timers

\* part_000:227-255
Stop ==
    /\ streaming
    /\ conns' = ConnsAfterClose
    /\ sessionStats' = IF startTimeRef # 0 /\ Len(riskHistory) > 0
                       THEN <<SessionSummary>>
                       ELSE sessionStats
    /\ streaming' = FALSE
    /\ reconnectAttempts' = AttemptsAfterStop
    /\ timers' = TimersAfterStop
    /\ out' = [NoOut EXCEPT !.act = "stop"]
    /\ UNCHANGED <<sport, analysis, alerts, connected, riskHistory, isMuted,
                   goodStreak, postureWarning, wsRef, startTimeRef,
                   lastCoachTime, lastPostureAlertTime, cbSport, speaking,
                   hasCamera, camStreaming, pendingCam, intervalRef, leaked, now, received,
                   smoothedRef, lerpTrace, painted>>

(***************************************************************************)
(* Frame transmitter (VideoFeed).                                          *)
(***************************************************************************)
NumIntervals == Len(intervalRef) + BagCardinality(leaked)

\* VideoFeed.jsx:143-147  the video and canvas elements are rendered, and
\* their refs set, only while streaming && hasCamera
VideoMounted == streaming /\ hasCamera

\* VideoFeed.jsx:11-18  the effect on [streaming], run by the render that
\* follows a toggle: the cleanup of the previous run (stopCamera), then
\* startCamera (up to its await, VideoFeed.jsx:27-31) or stopCamera
\* (VideoFeed.jsx:46-55).  startCamera captures this render's onFrame.
StreamingEffect ==
    /\ camStreaming # streaming
    /\ camStreaming' = streaming
    /\ intervalRef' = <<>>
    /\ pendingCam' = IF streaming THEN BagAdd(pendingCam, sport) ELSE pendingCam
    /\ out' = [NoOut EXCEPT !.act = "effect"]
    /\ UNCHANGED <<streaming, sport, analysis, alerts, connected, riskHistory,
                   sessionStats, isMuted, goodStreak, postureWarning, wsRef,
                   startTimeRef, lastCoachTime, lastPostureAlertTime,
                   reconnectAttempts, conns, timers, cbSport, speaking,
                   hasCamera, leaked, now, received,
                   smoothedRef, lerpTrace, painted>>

\* VideoFeed.jsx:29-39  getUserMedia resolves: the interval is started
\* whatever streaming is by now; an interval intervalRef still points to is
\* overwritten, not cleared
CamResolve(s) ==
    /\ BagIn(s, pendingCam)
    /\ pendingCam' = BagRemove(pendingCam, s)
    /\ hasCamera' = TRUE
    /\ leaked' = IF intervalRef = <<>> THEN leaked
                 ELSE BagAdd(leaked, intervalRef[1])
    /\ intervalRef' = <<s>>
    /\ out' = [NoOut EXCEPT !.act = "camOk"]
    /\ UNCHANGED <<streaming, sport, analysis, alerts, connected, riskHistory,
                   sessionStats, isMuted, goodStreak, postureWarning, wsRef,
                   startTimeRef, lastCoachTime, lastPostureAlertTime,
                   reconnectAttempts, conns, timers, cbSport, speaking, now,
                   received, camStreaming,
                   smoothedRef, lerpTrace, painted>>

\* VideoFeed.jsx:40-43  getUserMedia rejects
CamReject(s) ==
    /\ BagIn(s, pendingCam)
    /\ pendingCam' = BagRemove(pendingCam, s)
    /\ hasCamera' = FALSE
    /\ out' = [NoOut EXCEPT !.act = "camFail"]
    /\ UNCHANGED <<streaming, sport, analysis, alerts, connected, riskHistory,
                   sessionStats, isMuted, goodStreak, postureWarning, wsRef,
                   startTimeRef, lastCoachTime, lastPostureAlertTime,
                   reconnectAttempts, conns, timers, cbSport, speaking,
                   intervalRef, leaked, now, received, camStreaming,
                   smoothedRef, lerpTrace, painted>>

\* a capture that does not look at the element refs
CaptureNeverReturnsEarly == FALSE

\* VideoFeed.jsx:58  if (!videoRef.current || !canvasRef.current) return
CaptureReturnsEarly == ~VideoMounted

\* a send guarded by "not closed" instead of "open"
SendAllowedUnlessClosed == ReadyState \in {"OPEN", "CONNECTING", "CLOSING"}

\* part_000:209  if (wsRef.current?.readyState === WebSocket.OPEN)
SendAllowed == ReadyState = "OPEN"

\* part_000:208-217  sendFrame as captured with sport s
SendFrame(s) ==
    IF SendAllowed THEN <<[sport |-> s, conn |-> wsRef]>> ELSE <<>>

\* VideoFeed.jsx:57-71  one tick of a running interval whose onFrame captured s
CaptureTick(s) ==
    /\ s \in Sports
    /\ intervalRef = <<s>> \/ BagIn(s, leaked)
    /\ out' = [NoOut EXCEPT !.act = "tick",
                            !.frames = IF CaptureReturnsEarly THEN <<>>
                                       ELSE SendFrame(s)]
    /\ UNCHANGED <<streaming, sport, analysis, alerts, connected, riskHistory,
                   sessionStats, isMuted, goodStreak, postureWarning, wsRef,
                   startTimeRef, lastCoachTime, lastPostureAlertTime,
                   reconnectAttempts, conns, timers, cbSport, speaking,
                   hasCamera, camStreaming, pendingCam, intervalRef, leaked, now, received,
                   smoothedRef, lerpTrace, painted>>

\* part_000:259-264  handleSportChange
SportChange(s) ==
    /\ s \in Sports
    /\ sport' = s
    /\ out' = [NoOut EXCEPT !.act = "sport",
                            !.ctrl = IF ReadyState = "OPEN"
                                     THEN <<[sport |-> s, conn |-> wsRef]>>
                                     ELSE <<>>]
    /\ UNCHANGED <<streaming, analysis, alerts, connected, riskHistory,
                   sessionStats, isMuted, goodStreak, postureWarning, wsRef,
                   startTimeRef, lastCoachTime, lastPostureAlertTime,
                   reconnectAttempts, conns, timers, cbSport, speaking,
                   hasCamera, camStreaming, pendingCam, intervalRef, leaked, now, received,
                   smoothedRef, lerpTrace, painted>>


(***************************************************************************)
(* Notification dispatcher.                                                *)
(***************************************************************************)
PostureVoiceMsg ==
    "I'm sorry, but your posture is wrong. Please take a moment to correct your form."

HazardVoiceMsg == "Save yourself! Sudden object detected!"

Compliments ==
    <<"Great form, keep it up!",
      "Balance looks perfect. You're in the zone.",
      "Excellent control. This is how pros do it.",
      "Your posture is rock solid. Nice work.",
      "Stay focused, you're doing amazing.">>

\* a speak that does not look at the mute flag
SpeakIgnoringMute(sp, text, priority) ==
    IF priority = "high"
    THEN [speaking |-> TRUE,
          said |-> Append(sp.said, [text |-> text, priority |-> priority]),
          cancels |-> sp.cancels + (IF sp.speaking THEN 1 ELSE 0)]
    ELSE IF sp.speaking THEN sp
         ELSE [speaking |-> TRUE,
               said |-> Append(sp.said, [text |-> text, priority |-> priority]),
               cancels |-> sp.cancels]

\* a speak that hands a normal announcement to the engine behind the one in
\* flight
SpeakQueueing(sp, text, priority) ==
    IF isMuted THEN sp
    ELSE [speaking |-> TRUE,
          said |-> Append(sp.said, [text |-> text, priority |-> priority]),
          cancels |-> sp.cancels + (IF sp.speaking /\ priority = "high" THEN 1 ELSE 0)]

\* part_000:55-83  speak(text, priority) on sp = [speaking, said, cancels]:
\* the state of the synthesis engine and what this handler handed to it
Speak(sp, text, priority) ==
    IF isMuted THEN sp
    ELSE IF priority = "high"
         THEN [speaking |-> TRUE,
               said |-> Append(sp.said, [text |-> text, priority |-> priority]),
               cancels |-> sp.cancels + (IF sp.speaking THEN 1 ELSE 0)]
         ELSE IF sp.speaking THEN sp
              ELSE [speaking |-> TRUE,
                    said |-> Append(sp.said, [text |-> text, priority |-> priority]),
                    cancels |-> sp.cancels]

\* part_000:28-37  handleMuteToggle; the render after it memoises speak and
\* connectWS again (deps [isMuted], [speak]), capturing the current sport
MuteToggle ==
    /\ isMuted' = ~isMuted
    /\ speaking' = IF ~isMuted THEN FALSE ELSE speaking
    /\ cbSport' = sport
    /\ out' = [NoOut EXCEPT !.act = "mute",
                            !.cancels = IF ~isMuted /\ speaking THEN 1 ELSE 0]
    /\ UNCHANGED <<streaming, sport, analysis, alerts, connected, riskHistory,
                   sessionStats, goodStreak, postureWarning, wsRef,
                   startTimeRef, lastCoachTime, lastPostureAlertTime,
                   reconnectAttempts, conns, timers, hasCamera, camStreaming, pendingCam,
                   intervalRef, leaked, now, received,
                   smoothedRef, lerpTrace, painted>>

\* the utterance in flight ends
SpeechEnd ==
    /\ speaking
    /\ speaking' = FALSE
    /\ out' = [NoOut EXCEPT !.act = "speechEnd"]
    /\ UNCHANGED <<streaming, sport, analysis, alerts, connected, riskHistory,
                   sessionStats, isMuted, goodStreak, postureWarning, wsRef,
                   startTimeRef, lastCoachTime, lastPostureAlertTime,
                   reconnectAttempts, conns, timers, cbSport, hasCamera, camStreaming,
                   pendingCam, intervalRef, leaked, now, received,
                   smoothedRef, lerpTrace, painted>>

(***************************************************************************)
(* Telemetry processor.                                                    *)
(***************************************************************************)
\* a numeric field the message does not carry
Missing == 0 - 1

\* a missing risk that counts as a high one
OrFifty(x) == IF x = Missing THEN 50 ELSE x

\* data.injury_probability || 0
OrZero(x) == IF x = Missing THEN 0 ELSE x

\* data.alert_level || 'GREEN'
OrGreen(l) == IF l = "" THEN "GREEN" ELSE l

\* new Date().toLocaleTimeString(): the second of the day
LocaleTime(t) == (t \div 1000) % 86400

\* part_000:145-149  the point a reading adds to the risk history
HistoryPoint(data, t) ==
    [time |-> t, risk |-> OrZero(data.injury_probability),
     level |-> OrGreen(data.alert_level)]

\* a history that keeps one point too many
HistoryAfterOneMore(prev, data, t) ==
    SliceLast(Append(prev, HistoryPoint(data, t)), HistoryCap + 1)

\* part_000:144-151  setRiskHistory(prev => [...prev, point].slice(-60))
HistoryAfter(prev, data, t) ==
    SliceLast(Append(prev, HistoryPoint(data, t)), HistoryCap)

\* part_000:164-168  { ...data, id: Date.now(), timestamp: ... }
AlertRecord(data, t) ==
    [injury_probability |-> data.injury_probability,
     alert_level |-> data.alert_level,
     posture_alerts |-> data.posture_alerts,
     object_risk |-> data.object_risk,
     object_speed |-> data.object_speed,
     recommended_action |-> data.recommended_action,
     injury_type |-> data.injury_type,
     alert_message |-> data.alert_message,
     id |-> t,
     timestamp |-> LocaleTime(t)]

\* part_000:163  if (data.alert_level && data.alert_level !== 'GREEN')
IsAlert(data) == data.alert_level # "" /\ data.alert_level # "GREEN"

\* an alert log that truncates at the wrong end
AlertsAfterDropNewest(prev, data, t) ==
    IF IsAlert(data)
    THEN SliceLast(<<AlertRecord(data, t)>> \o prev, AlertCap)
    ELSE prev

\* part_000:163-168  setAlerts(prev => [record, ...prev].slice(0, 50))
AlertsAfter(prev, data, t) ==
    IF IsAlert(data)
    THEN SliceFirst(<<AlertRecord(data, t)>> \o prev, AlertCap)
    ELSE prev

\* part_000:175
\* a fallback that knows the recommended action only
FallbackMsgActionOnly(data) == OrElse(data.recommended_action, "High risk detected")

FallbackMsg(data) ==
    OrElse(data.recommended_action, OrElse(data.injury_type, "High risk detected"))

\* part_000:98-180  ws.onmessage of socket c for message data; pick is the
\* value of Math.floor(Math.random() * compliments.length) + 1.  The
\* goodStreak updater runs in the render that follows the handler body.
OnMessage(c, data, pick) ==
    /\ conns[c].st = "OPEN"
    /\ LET hasPosture == Len(data.posture_alerts) > 0
           postureDue == hasPosture /\ now - lastPostureAlertTime > PostureCooldown
           sp0 == [speaking |-> speaking, said |-> <<>>, cancels |-> 0]
           sp1 == IF postureDue THEN Speak(sp0, PostureVoiceMsg, "high") ELSE sp0
           risk == OrZero(data.injury_probability)
           good == risk < LowRisk /\ data.alert_level = "GREEN"
           hazardDue == /\ conns[c].sport = HazardSport
                        /\ data.object_risk > HazardRisk
                        /\ data.object_speed > HazardSpeed
                        /\ now - lastCoachTime > HazardCooldown
           sp2 == IF hazardDue THEN Speak(sp1, HazardVoiceMsg, "high") ELSE sp1
           coach1 == IF hazardDue THEN now ELSE lastCoachTime
           isRed == data.alert_level = "RED"
           fallback == isRed /\ ~hasPosture
           sp3 == IF fallback THEN Speak(sp2, FallbackMsg(data), "high") ELSE sp2
           next == goodStreak + 1
           praise == good /\ next >= StreakGoal /\ now - coach1 > CoachCooldown
           sp4 == IF praise THEN Speak(sp3, Compliments[pick], "normal") ELSE sp3
       IN  /\ analysis' = <<data>>
           /\ postureWarning' = IF hasPosture THEN data.posture_alerts[1]
                                ELSE postureWarning
           /\ lastPostureAlertTime' = IF postureDue THEN now
                                      ELSE lastPostureAlertTime
           /\ timers' = IF hasPosture
                        THEN BagAdd(timers, [kind |-> "banner",
                                             delay |-> BannerDelay,
                                             due |-> now + BannerDelay,
                                             sport |-> "generic"])
                        ELSE timers
           /\ goodStreak' = IF good THEN (IF praise THEN 0 ELSE next)
                            ELSE IF risk > HighRisk THEN 0 ELSE goodStreak
           /\ lastCoachTime' = IF praise THEN now ELSE coach1
           /\ riskHistory' = HistoryAfter(riskHistory, data, now)
           /\ alerts' = AlertsAfter(alerts, data, now)
           /\ speaking' = sp4.speaking
           /\ received' = Append(received, [data |-> data, at |-> now])
           /\ out' = [NoOut EXCEPT !.act = "message",
                                   !.said = sp4.said,
                                   !.cancels = sp4.cancels,
                                   !.tone = IF isRed /\ ~isMuted THEN 1 ELSE 0]
    /\ UNCHANGED <<streaming, sport, connected, sessionStats, isMuted, wsRef,
                   startTimeRef, reconnectAttempts, conns, cbSport, hasCamera, camStreaming,
                   pendingCam, intervalRef, leaked, now,
                   smoothedRef, lerpTrace, painted>>

\* a callback that leaves the banner as it is
BannerFireKeeps(t) ==
    /\ BagIn(t, timers)
    /\ t.kind = "banner"
    /\ now >= t.due
    /\ timers' = BagRemove(timers, t)
    /\ out' = [NoOut EXCEPT !.act = "banner"]
    /\ UNCHANGED <<streaming, sport, analysis, alerts, connected, riskHistory,
                   sessionStats, isMuted, goodStreak, wsRef, startTimeRef,
                   lastCoachTime, lastPostureAlertTime, reconnectAttempts,
                   conns, cbSport, speaking, hasCamera, camStreaming, pendingCam,
                   intervalRef, leaked, now, received, postureWarning,
                   smoothedRef, lerpTrace, painted>>

\* part_000:116  the setTimeout callback that clears the posture banner
BannerFire(t) ==
    /\ BagIn(t, timers)
    /\ t.kind = "banner"
    /\ now >= t.due
    /\ timers' = BagRemove(timers, t)
    /\ postureWarning' = ""
    /\ out' = [NoOut EXCEPT !.act = "banner"]
    /\ UNCHANGED <<streaming, sport, analysis, alerts, connected, riskHistory,
                   sessionStats, isMuted, goodStreak, wsRef, startTimeRef,
                   lastCoachTime, lastPostureAlertTime, reconnectAttempts,
                   conns, cbSport, speaking, hasCamera, camStreaming, pendingCam,
                   intervalRef, leaked, now, received,
                   smoothedRef, lerpTrace, painted>>

\* Date.now() grows by d; a pending callback runs when it is due, so time
\* does not pass its due time
AdvanceTime(d) ==
    /\ d > 0
    /\ \A t \in BagToSet(timers) : now + d <= t.due
    /\ now' = now + d
    /\ out' = [NoOut EXCEPT !.act = "time"]
    /\ UNCHANGED <<streaming, sport, analysis, alerts, connected, riskHistory,
                   sessionStats, isMuted, goodStreak, postureWarning, wsRef,
                   startTimeRef, lastCoachTime, lastPostureAlertTime,
                   reconnectAttempts, conns, timers, cbSport, speaking,
                   hasCamera, camStreaming, pendingCam, intervalRef, leaked, received,
                   smoothedRef, lerpTrace, painted>>

(***************************************************************************)
(* Readings the analysis service may send.                                 *)
(***************************************************************************)
Reading(risk, level, posture, orisk, ospeed, action, itype, msg) ==
    [injury_probability |-> risk, alert_level |-> level,
     posture_alerts |-> posture, object_risk |-> orisk,
     object_speed |-> ospeed, recommended_action |-> action,
     injury_type |-> itype, alert_message |-> msg]

Calm == Reading(10, "GREEN", <<>>, 0, 0, "", "", "")

Caution == Reading(50, "YELLOW", <<>>, 0, 0, "", "", "Elevated strain")

Danger == Reading(90, "RED", <<>>, 0, 0, "Stop and rest", "knee", "Sudden impact")

Bare == Reading(Missing, "", <<>>, Missing, Missing, "", "", "")

Slouch == Reading(50, "YELLOW", <<"Knee valgus">>, 0, 0, "", "", "Watch your knee")

GreenBall == Reading(10, "GREEN", <<>>, 90, 40, "", "", "")

RedSlouchBall ==
    Reading(90, "RED", <<"Rounded back">>, 90, 40, "Stop and rest", "back", "Overload")

RedBall == Reading(90, "RED", <<>>, 90, 40, "", "head", "Incoming object")

Mild == Reading(20, "GREEN", <<>>, 0, 0, "", "", "")

Strain == Reading(30, "YELLOW", <<>>, 0, 0, "", "", "Elevated strain")

Impact == Reading(95, "RED", <<>>, 0, 0, "Stop and rest", "knee", "Sudden impact")

Twist == Reading(90, "RED", <<>>, 0, 0, "", "ankle", "")

Blank == Reading(Missing, "GREEN", <<>>, 0, 0, "", "", "")

LowYellow == Reading(10, "YELLOW", <<>>, 0, 0, "", "", "Check your stance")

Forty == Reading(40, "GREEN", <<>>, 0, 0, "", "", "")

FortyOne == Reading(41, "GREEN", <<>>, 0, 0, "", "", "")

\* VideoFeed.jsx:39  one reading per captured frame
FrameGap == 150

(***************************************************************************)
(* AROverlay: landmark smoothing.  Coordinates are whole multiples of      *)
(* 1 / LerpDen^MaxLerpSteps, so that MaxLerpSteps smoothing steps in a row *)
(* are computed without remainder.                                         *)
(***************************************************************************)
\* part_003:55  LERP_FACTOR = 0.45 = LerpNum / LerpDen
LerpNum == 9

LerpDen == 20

RECURSIVE Power(_, _)
Power(b, n) == IF n = 0 THEN 1 ELSE b * Power(b, n - 1)

\* the coordinate 1.0
Unit == Power(LerpDen, MaxLerpSteps)

\* a smoothing that moves half the way
LerpHalf(a, b) == a + (b - a) \div 2

\* part_003:57-59  lerp(a, b, LERP_FACTOR)
Lerp(a, b) == a + ((b - a) * LerpNum) \div LerpDen

\* landmarks [x, y, z, visibility] the service may send
Points == {<<0, 0, Unit, 0>>, <<Unit, Unit, Unit, Unit>>}

\* analysis?.skeleton_landmarks || null; <<>> is null or []
RawFrames == UNION {[1..n -> Points] : n \in 0..MaxLandmarks}

NoTrace == [start |-> <<>>, target |-> <<>>, steps |-> 0, total |-> 0]

\* part_003:85  first frame or landmark count changed
Snaps(raw) == smoothedRef = <<>> \/ Len(smoothedRef) # Len(raw)

\* part_003:79-103  the value the landmarks memo leaves in smoothedRef
SmoothedAfter(raw) ==
    IF raw = <<>> THEN <<>>
    ELSE IF Snaps(raw) THEN raw
    ELSE [i \in 1..Len(smoothedRef) |->
            <<Lerp(smoothedRef[i][1], raw[i][1]),
              Lerp(smoothedRef[i][2], raw[i][2]),
              Lerp(smoothedRef[i][3], raw[i][3]),
              raw[i][4]>>]

\* part_003:78-104  AROverlay renders a reading whose skeleton_landmarks is raw
Overlay(raw) ==
    /\ smoothedRef' = SmoothedAfter(raw)
    /\ lerpTrace' =
          IF raw = <<>> THEN NoTrace
          ELSE IF Snaps(raw)
          THEN [start |-> raw, target |-> raw, steps |-> 0, total |-> 0]
          ELSE IF raw = lerpTrace.target
          THEN [lerpTrace EXCEPT !.steps = @ + 1, !.total = @ + 1]
          ELSE [start |-> smoothedRef, target |-> raw, steps |-> 1,
                total |-> lerpTrace.total + 1]
    /\ out' = [NoOut EXCEPT !.act = "render"]
    /\ UNCHANGED <<streaming, sport, analysis, alerts, connected, riskHistory,
                   sessionStats, isMuted, goodStreak, postureWarning, wsRef,
                   startTimeRef, lastCoachTime, lastPostureAlertTime,
                   reconnectAttempts, conns, timers, cbSport, speaking,
                   hasCamera, camStreaming, pendingCam, intervalRef, leaked,
                   now, received, painted>>

(***************************************************************************)
(* The functions that colour a percentage.  Undefined stands for a value   *)
(* that is missing.                                                        *)
(***************************************************************************)
Undefined == -1

Percents == 0..MaxPercent

\* part_000:524-528  getColor
GetColor(value) ==
    IF value = Undefined \/ value = 0 \/ value < 35 THEN "var(--primary)"
    ELSE IF value < 70 THEN "var(--alert-yellow)"
    ELSE "var(--alert-red)"

\* HistoryChart.jsx:85,117  lineColor of drawChart, from the last risk
LineColor(risk) ==
    LET lastRisk == IF risk = Undefined THEN 0 ELSE risk
    IN  IF lastRisk > 70 THEN "#ef4444"
        ELSE IF lastRisk > 35 THEN "#f59e0b"
        ELSE "#22c55e"

\* SessionSummary.jsx:183-187  getRiskColor
GetRiskColor(risk) ==
    IF risk < 30 THEN "var(--primary)"
    ELSE IF risk < 70 THEN "var(--alert-yellow)"
    ELSE "var(--alert-red)"

Painters == {"getColor", "lineColor", "getRiskColor"}

NoPaint == [fn |-> "none", value |-> 0, colour |-> ""]

\* a render that colours value with the function fn
Paint(fn, value) ==
    /\ painted' = [fn |-> fn, value |-> value,
                   colour |-> CASE fn = "getColor" -> GetColor(value)
                                [] fn = "lineColor" -> LineColor(value)
                                [] fn = "getRiskColor" -> GetRiskColor(value)]
    /\ out' = [NoOut EXCEPT !.act = "paint"]
    /\ UNCHANGED <<streaming, sport, analysis, alerts, connected, riskHistory,
                   sessionStats, isMuted, goodStreak, postureWarning, wsRef,
                   startTimeRef, lastCoachTime, lastPostureAlertTime,
                   reconnectAttempts, conns, timers, cbSport, speaking,
                   hasCamera, camStreaming, pendingCam, intervalRef, leaked,
                   now, received, smoothedRef, lerpTrace>>

(***************************************************************************)
(* The state after App and VideoFeed have mounted.                         *)
(***************************************************************************)
Init ==
    /\ streaming = FALSE
    /\ sport = "generic"
    /\ analysis = <<>>
    /\ alerts = <<>>
    /\ connected = FALSE
    /\ riskHistory = <<>>
    /\ sessionStats = <<>>
    /\ isMuted = FALSE
    /\ goodStreak = 0
    /\ postureWarning = ""
    /\ wsRef = 0
    /\ startTimeRef = 0
    /\ lastCoachTime = 0
    /\ lastPostureAlertTime = 0
    /\ reconnectAttempts = 0
    /\ conns = [c \in Slots |-> FreeConn]
    /\ timers = EmptyBag
    /\ cbSport = "generic"
    /\ speaking = FALSE
    /\ hasCamera = TRUE
    /\ camStreaming = FALSE
    /\ pendingCam = EmptyBag
    /\ intervalRef = <<>>
    /\ leaked = EmptyBag
    /\ now = Epoch
    /\ received = <<>>
    /\ out = NoOut
    /\ smoothedRef = <<>>
    /\ lerpTrace = NoTrace
    /\ painted = NoPaint

(***************************************************************************)
(* The session channel and the frame transmitter under every interleaving  *)
(* of user, socket, camera and timer events.                               *)
(***************************************************************************)
\* the time to the next pending callback
ToNextDue == {t.due - now : t \in BagToSet(timers)}

(***************************************************************************)
(* Spec: the session channel of App under every interleaving of the user's *)
(* toggles, socket events and reconnect callbacks.  VideoFeed, which the   *)
(* channel code never reads, stays as mounted.                             *)
(***************************************************************************)
Next ==
    \/ Start
    \/ Stop
    \/ \E c \in Slots : OnOpen(c)
    \/ \E c \in Slots :
          WithinHorizon(MaxAttempts, MaxTimers, MaxElapsed) /\ OnClose(c)
    \/ \E t \in ReconnectTimers : ReconnectFire(t)
    \/ \E d \in ToNextDue : AdvanceTime(d)

Spec == Init /\ [][Next]_vars

(***************************************************************************)
(* SpecRetry: the same actions with a horizon long enough for the delay to *)
(* reach its cap.                                                          *)
(***************************************************************************)
NextRetry ==
    \/ RoomFor(RetryLive) /\ Start
    \/ Stop
    \/ \E c \in Slots : OnOpen(c)
    \/ \E c \in Slots :
          WithinHorizon(RetryAttempts, RetryTimers, RetryElapsed) /\ OnClose(c)
    \/ \E t \in ReconnectTimers : RoomFor(RetryLive) /\ ReconnectFire(t)
    \/ \E d \in ToNextDue : AdvanceTime(d)

SpecRetry == Init /\ [][NextRetry]_vars

(***************************************************************************)
(* SpecLive: the channel with the event loop's guarantees: a callback that *)
(* is due runs, and time passes until the next callback is due.  A socket  *)
(* is opened only when the pending reconnects leave it room, so that a     *)
(* reconnect never waits for the model's sockets.                          *)
(***************************************************************************)
RoomLeft == ConnectReturnsEarly \/ LiveCount + NumReconnectTimers < LiveSlots

NextLive ==
    \/ RoomLeft /\ Start
    \/ Stop
    \/ \E c \in Slots : OnOpen(c)
    \/ \E c \in Slots :
          WithinHorizon(LiveAttempts, LiveTimers, LiveElapsed) /\ OnClose(c)
    \/ \E t \in ReconnectTimers : ReconnectFire(t)
    \/ \E d \in ToNextDue : AdvanceTime(d)

SpecLive ==
    /\ Init
    /\ [][NextLive]_vars
    /\ WF_vars(\E t \in ReconnectTimers : ReconnectFire(t))
    /\ WF_vars(\E d \in ToNextDue : AdvanceTime(d))

(***************************************************************************)
(* SpecFrames: App and VideoFeed together.  React runs the effect of a     *)
(* toggle before any other event is handled.                               *)
(***************************************************************************)
EffectsDone == camStreaming = streaming

NextFrames ==
    \/ StreamingEffect
    \/ /\ EffectsDone
       /\ \/ RoomFor(FrameLive) /\ BagCardinality(pendingCam) < MaxPendingCam
             /\ Start
          \/ Stop
          \/ \E c \in Slots : OnOpen(c)
          \/ \E c \in Slots :
                /\ WithinHorizon(FrameAttempts, FrameTimers, FrameElapsed)
                /\ OnClose(c)
          \/ \E t \in ReconnectTimers : RoomFor(FrameLive) /\ ReconnectFire(t)
          \/ \E d \in ToNextDue : AdvanceTime(d)
          \/ \E s \in Sports : NumIntervals < MaxIntervals /\ CamResolve(s)
          \/ \E s \in Sports : CamReject(s)
          \/ \E s \in Sports : CaptureTick(s)
          \/ \E s \in Sports : SportChange(s)

SpecFrames == Init /\ [][NextFrames]_vars


(***************************************************************************)
(* SpecBuf: one session on one socket that stays open.  The service        *)
(* answers one reading per captured frame; the first PatternLen readings   *)
(* are arbitrary and the later ones repeat them in turn.                   *)
(***************************************************************************)
BufReadings == {Calm, Caution, Danger, Bare}

NumReceived == Len(received)

FollowsPattern(data) ==
    IF NumReceived < PatternLen THEN TRUE
    ELSE data = received[NumReceived + 1 - PatternLen].data

NextBuf ==
    \/ FreeSlots = Slots /\ Start
    \/ \E c \in Slots : OnOpen(c)
    \/ \E c \in Slots, data \in BufReadings :
          /\ NumReceived < MaxBufReadings
          /\ IF NumReceived > 0 THEN received[NumReceived].at < now ELSE TRUE
          /\ FollowsPattern(data)
          /\ \E pick \in 1..NumCompliments : OnMessage(c, data, pick)
    \/ /\ NumReceived > 0
       /\ received[NumReceived].at = now
       /\ AdvanceTime(FrameGap)

SpecBuf == Init /\ [][NextBuf]_vars

(***************************************************************************)
(* SpecVoice: the notification dispatcher during one session on one socket *)
(* that stays open.  The sport is chosen before the                        *)
(* session; readings arrive VoiceGap apart and repeat their first          *)
(* VoicePattern readings in turn; the user mutes and unmutes, utterances   *)
(* end and banner callbacks run at any point.                              *)
(***************************************************************************)
VoiceReadings == {Calm, Slouch, GreenBall, Danger, RedSlouchBall, RedBall}

FollowsVoicePattern(data) ==
    IF NumReceived < VoicePattern THEN TRUE
    ELSE data = received[NumReceived + 1 - VoicePattern].data

\* the time since the last reading of the session
SinceLastReading == IF NumReceived = 0 THEN VoiceGap ELSE now - received[NumReceived].at

\* the time to the next reading or to the next pending callback
VoiceStep ==
    LET S == {VoiceGap - SinceLastReading} \cup ToNextDue
    IN  CHOOSE x \in S : \A y \in S : x <= y

NextVoice ==
    \/ \E s \in Sports : ~streaming /\ startTimeRef = 0 /\ SportChange(s)
    \/ MuteToggle
    \/ FreeSlots = Slots /\ startTimeRef = 0 /\ Start
    \/ \E c \in Slots : OnOpen(c)
    \/ \E c \in Slots, data \in VoiceReadings :
          /\ NumReceived < MaxVoiceReadings
          /\ SinceLastReading >= VoiceGap
          /\ FollowsVoicePattern(data)
          /\ \E pick \in 1..NumCompliments : OnMessage(c, data, pick)
    \/ SpeechEnd
    \/ \E t \in BagToSet(timers) : BannerFire(t)
    \/ NumReceived > 0 /\ SinceLastReading < VoiceGap /\ AdvanceTime(VoiceStep)

SpecVoice == Init /\ [][NextVoice]_vars

(***************************************************************************)
(* SpecSummary: one session of a few readings, which the user stops at any *)
(* point; time passes in steps of SummaryGap.                              *)
(***************************************************************************)
SummaryReadings == {Calm, Mild, Strain, Impact, Twist}

NextSummary ==
    \/ FreeSlots = Slots /\ startTimeRef = 0 /\ Start
    \/ Stop
    \/ \E c \in Slots : OnOpen(c)
    \/ \E c \in Slots : ~streaming /\ OnClose(c)
    \/ \E c \in Slots, data \in SummaryReadings :
          /\ NumReceived < MaxSummaryReadings
          /\ \E pick \in 1..NumCompliments : OnMessage(c, data, pick)
    \/ streaming /\ now + SummaryGap <= Epoch + SummaryElapsed
          /\ AdvanceTime(SummaryGap)

SpecSummary == Init /\ [][NextSummary]_vars

(***************************************************************************)
(* SpecOverlay: AROverlay renders any sequence of landmark frames; at most *)
(* MaxLerpSteps smoothing steps follow one another without a snap.         *)
(***************************************************************************)
NextOverlay ==
    \E raw \in RawFrames :
        /\ raw = <<>> \/ Snaps(raw) \/ lerpTrace.total < MaxLerpSteps
        /\ Overlay(raw)

SpecOverlay == Init /\ [][NextOverlay]_vars

(***************************************************************************)
(* SpecStreak: one session on one socket that stays open; the readings     *)
(* repeat their first StreakPattern readings in turn.                      *)
(***************************************************************************)
StreakReadings == {Calm, Blank, LowYellow, Mild, Forty, FortyOne, Bare}

FollowsStreakPattern(data) ==
    IF NumReceived < StreakPattern THEN TRUE
    ELSE data = received[NumReceived + 1 - StreakPattern].data

NextStreak ==
    \/ FreeSlots = Slots /\ startTimeRef = 0 /\ Start
    \/ \E c \in Slots : OnOpen(c)
    \/ \E c \in Slots, data \in StreakReadings :
          /\ NumReceived < MaxStreakReadings
          /\ FollowsStreakPattern(data)
          /\ \E pick \in 1..NumCompliments : OnMessage(c, data, pick)

SpecStreak == Init /\ [][NextStreak]_vars

(***************************************************************************)
(* SpecSport: one session in which the user changes the sport and mutes at *)
(* any point while readings with and without a fast object arrive.         *)
(***************************************************************************)
SportReadings == {Calm, GreenBall}

NextSport ==
    \/ FreeSlots = Slots /\ startTimeRef = 0 /\ Start
    \/ \E c \in Slots : OnOpen(c)
    \/ \E s \in Sports : SportChange(s)
    \/ MuteToggle
    \/ \E c \in Slots, data \in SportReadings :
          /\ NumReceived < MaxSportReadings
          /\ \E pick \in 1..NumCompliments : OnMessage(c, data, pick)

SpecSport == Init /\ [][NextSport]_vars

(***************************************************************************)
(* SpecBands: the colouring functions over every percentage.  MetricItem   *)
(* is also rendered without a value; the chart and the summary are not.    *)
(***************************************************************************)
NextBands ==
    \/ \E value \in Percents \cup {Undefined} : Paint("getColor", value)
    \/ \E fn \in Painters, value \in Percents : Paint(fn, value)

SpecBands == Init /\ [][NextBands]_vars

(***************************************************************************)
(* SpecBanner: one session with a few readings, with and without posture   *)
(* alerts, at any distance in time.  A callback that is due runs, and time *)
(* goes on to the next callback that is pending.                           *)
(***************************************************************************)
BannerReadings == {Calm, Slouch, RedSlouchBall}

NextBanner ==
    \/ FreeSlots = Slots /\ startTimeRef = 0 /\ Start
    \/ \E c \in Slots : OnOpen(c)
    \/ \E c \in Slots, data \in BannerReadings :
          /\ NumReceived < MaxBannerReadings
          /\ \E pick \in 1..NumCompliments : OnMessage(c, data, pick)
    \/ \E t \in BagToSet(timers) : BannerFire(t)
    \/ \E d \in ToNextDue : AdvanceTime(d)
    \/ now + BannerGap <= Epoch + BannerElapsed /\ AdvanceTime(BannerGap)

SpecBanner ==
    /\ Init
    /\ [][NextBanner]_vars
    /\ WF_vars(\E t \in BagToSet(timers) : BannerFire(t))
    /\ WF_vars(\E d \in ToNextDue : AdvanceTime(d))

(***************************************************************************)
(* SpecSession: sessions following one another on a channel that may drop, *)
(* with a few readings each, under every interleaving.                     *)
(***************************************************************************)
SessReadings == {Bare, Danger}

NextSession ==
    \/ RoomFor(SessLive) /\ Start
    \/ Stop
    \/ \E c \in Slots : OnOpen(c)
    \/ \E c \in Slots :
          WithinHorizon(SessAttempts, SessTimers, SessElapsed) /\ OnClose(c)
    \/ \E t \in ReconnectTimers : RoomFor(SessLive) /\ ReconnectFire(t)
    \/ \E c \in Slots, data \in SessReadings :
          /\ NumReceived < MaxSessReadings
          /\ \E pick \in 1..NumCompliments : OnMessage(c, data, pick)
    \/ \E d \in ToNextDue \cup {FrameGap} :
          now + d <= Epoch + SessElapsed /\ AdvanceTime(d)

SpecSession == Init /\ [][NextSession]_vars

(***************************************************************************)
(* Properties of the session channel.                                      *)
(***************************************************************************)
LiveConns == {c \in Slots : conns[c].st \in LiveStates}

\* C1: after an explicit stop no connection attempt is made until streaming
\* is started again: a reconnect callback scheduled before the stop never
\* calls connect while streaming is off.
C1_NoConnectAfterStop == out.act = "reconnect" => streaming

\* C3: at most one connection is CONNECTING or OPEN at any time.
C3_AtMostOneLive == Cardinality(LiveConns) <= 1

\* the delays the specification lists for attempt 0, 1, 2, 3, 4
BackoffTable == <<1000, 2000, 4000, 8000, 10000>>

ExpectedDelay(attempt) ==
    IF attempt < Len(BackoffTable) THEN BackoffTable[attempt + 1] ELSE 10000

\* C5: the delay scheduled by a close while streaming is
\* min(1000 * 2^attempt, 10000), that is 1000, 2000, 4000, 8000, 10000,
\* 10000, ...; attempt grows by one with every reconnect callback, is 0
\* right after every open and is changed by nothing else.
C5_Backoff ==
    [][ /\ out'.act = "close" /\ streaming =>
              /\ out'.scheduled = <<ExpectedDelay(reconnectAttempts)>>
              /\ timers' = BagAdd(timers,
                     [kind |-> "reconnect",
                      delay |-> ExpectedDelay(reconnectAttempts),
                      due |-> now + ExpectedDelay(reconnectAttempts),
                      sport |-> "generic"])
        /\ out'.act = "reconnect" => reconnectAttempts' = reconnectAttempts + 1
        /\ out'.act = "open" => reconnectAttempts' = 0
        /\ out'.act \notin {"reconnect", "open"} =>
              reconnectAttempts' = reconnectAttempts ]_vars

\* C5 witness: a fifth consecutive failure is given the capped delay
C5_Witness ==
    /\ out.act = "close"
    /\ reconnectAttempts = 4
    /\ out.scheduled = <<10000>>

\* C4: while streaming stays on, every close (a socket that fails to open
\* included) is eventually followed by a reconnect callback that calls
\* connect, which opens a socket unless the current one is OPEN; the client
\* never gives up, whatever the number of failures in a row.
C4_AlwaysRetries ==
    (out.act = "close" /\ streaming)
        ~> (\/ ~streaming
            \/ /\ out.act = "reconnect"
               /\ out.opened = 1 \/ ReadyState = "OPEN")

\* C4 witness: a reconnect callback opens a socket after four failures in
\* a row
C4_Witness ==
    /\ out.act = "reconnect"
    /\ streaming
    /\ reconnectAttempts = 5
    /\ out.opened = 1

\* C6: right after an explicit stop the reconnect attempt counter is 0.
C6_StopResetsAttempts == out.act = "stop" => reconnectAttempts = 0

(***************************************************************************)
(* Properties of the frame transmitter.                                    *)
(***************************************************************************)
\* C2: no frame message is sent on any connection while streaming is off,
\* whatever ticks, camera answers, reconnect callbacks and stops interleave.
C2_NoFrameAfterStop == out.frames # <<>> => streaming

\* C2 witness: a capture interval ticks while streaming is off and the
\* current socket is OPEN
C2_Witness ==
    /\ out.act = "tick"
    /\ ~streaming
    /\ ReadyState = "OPEN"

\* C7: a send requested while the channel is not OPEN puts nothing on the
\* network and changes nothing of the channel; nothing is queued, so every
\* frame on the network is put there by the tick that captured it, on the
\* current socket, which is OPEN.
C7_NoSendUnlessOpen ==
    [][ /\ out'.act \in {"tick", "sport"} /\ ReadyState # "OPEN" =>
              /\ out'.frames = <<>>
              /\ out'.ctrl = <<>>
        /\ out'.act \in {"tick", "sport"} =>
              UNCHANGED <<conns, wsRef, connected, timers, reconnectAttempts>>
        /\ out'.frames # <<>> =>
              /\ out'.act = "tick"
              /\ ReadyState = "OPEN"
              /\ Len(out'.frames) = 1
              /\ out'.frames[1].conn = wsRef
        /\ out'.ctrl # <<>> =>
              /\ out'.act = "sport"
              /\ ReadyState = "OPEN" ]_vars

\* C7 witness: a frame is captured while the socket is still CONNECTING
C7_Witness ==
    /\ out.act = "tick"
    /\ VideoMounted
    /\ ReadyState = "CONNECTING"
    /\ out.frames = <<>>


(***************************************************************************)
(* Properties of the bounded buffers.                                      *)
(***************************************************************************)
\* the point the specification has a reading leave in the risk history
PointOf(r) ==
    [time |-> r.at,
     risk |-> IF r.data.injury_probability < 0 THEN 0
              ELSE r.data.injury_probability,
     level |-> IF r.data.alert_level \in {"YELLOW", "RED"}
               THEN r.data.alert_level ELSE "GREEN"]

\* C8: after N readings of a session the risk history holds min(N, 60)
\* points, one per reading: the most recent readings, oldest first.
C8_HistoryIsLast60 ==
    LET n == Len(received)
        k == IF n < 60 THEN n ELSE 60
    IN  /\ Len(riskHistory) = k
        /\ \A i \in 1..k : riskHistory[i] = PointOf(received[n - k + i])

\* C8 witness: readings beyond the 60th have evicted the oldest points
C8_Witness ==
    /\ Len(received) > 61
    /\ Len(riskHistory) = 60
    /\ riskHistory[1].level # riskHistory[2].level

\* the readings of the session whose level is YELLOW or RED, in arrival order
NonGreen == SelectSeq(received, LAMBDA r : r.data.alert_level \in {"YELLOW", "RED"})

\* C9: the alert log holds the most recent min(M, 50) readings that are not
\* GREEN, newest first, each with its data, receipt time as id and formatted
\* time; GREEN readings are not in it.
C9_AlertsAreLast50 ==
    LET m == Len(NonGreen)
        k == IF m < 50 THEN m ELSE 50
    IN  /\ Len(alerts) = k
        /\ \A i \in 1..k :
              LET r == NonGreen[m + 1 - i]
              IN  /\ alerts[i].id = r.at
                  /\ alerts[i].timestamp = (r.at \div 1000) % 86400
                  /\ alerts[i].alert_level = r.data.alert_level
                  /\ alerts[i].injury_probability = r.data.injury_probability
                  /\ alerts[i].alert_message = r.data.alert_message
                  /\ alerts[i].recommended_action = r.data.recommended_action

\* C9 witness: more than 50 readings that are not GREEN, with GREEN ones
\* between them
C9_Witness ==
    /\ Len(NonGreen) > 50
    /\ Len(NonGreen) < Len(received)
    /\ Len(alerts) = 50


\* C10: a session starts with an empty risk history and an empty alert log,
\* and while it runs every entry of either is for a reading received since
\* the session started.
C10_BuffersOfThisSession ==
    /\ out.act = "start" => riskHistory = <<>> /\ alerts = <<>>
    /\ streaming =>
          /\ \A i \in DOMAIN riskHistory :
                /\ riskHistory[i].time >= startTimeRef
                /\ \E j \in DOMAIN received :
                      /\ received[j].at >= startTimeRef
                      /\ riskHistory[i] = PointOf(received[j])
          /\ \A i \in DOMAIN alerts :
                /\ alerts[i].id >= startTimeRef
                /\ \E j \in DOMAIN received :
                      /\ received[j].at = alerts[i].id
                      /\ received[j].data.alert_level = alerts[i].alert_level

\* C10 witness: a session starts after one that left points and alerts behind
C10_Witness ==
    /\ out.act = "start"
    /\ analysis # <<>>
    /\ sessionStats = <<>>
    /\ now > Epoch

\* C10 witness of the second half: a later session has received a reading
C10_LaterSession ==
    /\ streaming
    /\ startTimeRef > Epoch
    /\ riskHistory # <<>>
    /\ alerts # <<>>


(***************************************************************************)
(* Properties of the notification dispatcher.                              *)
(***************************************************************************)
\* the texts handed to the speech engine in the last step
SaidTexts == {out.said[i].text : i \in DOMAIN out.said}

PostureSaid == PostureVoiceMsg \in SaidTexts

HazardSaid == HazardVoiceMsg \in SaidTexts

ComplimentSet == {Compliments[i] : i \in DOMAIN Compliments}

PraiseSaid == SaidTexts \cap ComplimentSet # {}

\* the number of utterances the speech engine holds
InFlight == IF speaking THEN 1 ELSE 0

\* C11: while muted no step hands anything to the speech engine or plays the
\* tone, and nothing is being spoken; a mute toggle negates the flag and
\* nothing else changes it, so two toggles restore it.
C11_MuteSuppresses ==
    [][/\ isMuted' => out'.said = <<>> /\ out'.tone = 0 /\ ~speaking'
       /\ out'.act = "mute" => isMuted' = ~isMuted
       /\ out'.act # "mute" => isMuted' = isMuted]_vars

\* C11 witness: a RED reading is processed while muted, after the 50th
\* reading and with posture alerts
C11_Witness ==
    /\ isMuted
    /\ out.act = "message"
    /\ analysis = <<RedSlouchBall>>
    /\ NumReceived > 50

\* C12: the engine never holds more than one utterance: what a step hands
\* to it, less what the step cancels or what ends, is what is in flight
\* after the step; an interrupt announcement is the one in flight after its
\* step; a normal announcement is handed over only when nothing is in
\* flight and nothing else was handed over in the step.
C12_OneInFlight ==
    [][/\ LET ended == IF out'.act = "speechEnd" THEN 1 ELSE 0
          IN  InFlight' = InFlight - out'.cancels - ended + Len(out'.said)
       /\ \A i \in DOMAIN out'.said :
             /\ out'.said[i].priority = "high" => speaking'
             /\ out'.said[i].priority = "normal" => i = 1 /\ ~speaking]_vars

\* C12 witness: a reinforcement falls due while an utterance is in flight
\* and is dropped
C12_Witness ==
    /\ out.act = "message"
    /\ analysis = <<Calm>>
    /\ ~isMuted
    /\ speaking
    /\ out.said = <<>>
    /\ goodStreak = 0
    /\ NumReceived > 100


\* C13: a hazard announcement leaves the timestamp the reinforcement
\* cooldown is measured from (lastCoachTime, part_000:124) unchanged; a
\* posture announcement leaves it unchanged; hazard and reinforcement
\* announcements leave the posture timestamp unchanged.
C13_IndependentCooldowns ==
    [][/\ HazardSaid' => lastCoachTime' = lastCoachTime
       /\ PostureSaid' /\ ~HazardSaid' /\ ~PraiseSaid' =>
             lastCoachTime' = lastCoachTime
       /\ (HazardSaid' \/ PraiseSaid') /\ ~PostureSaid' =>
             lastPostureAlertTime' = lastPostureAlertTime]_vars

\* C14: a cooldown timestamp changes only in a step that hands an
\* announcement of its category to the speech engine.
C14_StampOnlyWhenSaid ==
    [][/\ lastPostureAlertTime' # lastPostureAlertTime => PostureSaid'
       /\ lastCoachTime' # lastCoachTime => HazardSaid' \/ PraiseSaid']_vars

\* C15: the processing of one reading hands at most one announcement to the
\* speech engine.
C15_OneAnnouncementPerReading == Len(out.said) <= 1

\* a reading that counts towards the good streak
GoodReading(data) ==
    /\ data.alert_level = "GREEN"
    /\ data.injury_probability >= 0
    /\ data.injury_probability < 20

\* C16: when the 50th of the first 50 readings of the client, all GREEN with
\* risk below 20, has been processed, the reinforcement was requested: the
\* streak is 0 and the coaching cooldown starts at that reading.
C16_PraiseAtFifty ==
    (/\ out.act = "message"
     /\ NumReceived = 50
     /\ \A i \in 1..50 : GoodReading(received[i].data))
    => goodStreak = 0 /\ lastCoachTime = now

\* C17: after a RED reading without posture alerts the tone was played
\* unless muted and, unless muted, the recommended action, else the injury
\* type, is the announcement in flight, handed over last at interrupt
\* priority; after a RED reading with posture alerts, or a reading that is
\* not RED, no fallback was handed over, and after a reading that is not
\* RED no tone was played.
C17_RedFallback ==
    out.act = "message" =>
        LET data == analysis[1]
            red == data.alert_level = "RED"
            bare == data.posture_alerts = <<>>
            expected == IF data.recommended_action # ""
                        THEN data.recommended_action
                        ELSE IF data.injury_type # "" THEN data.injury_type
                        ELSE "High risk detected"
            others == {PostureVoiceMsg, HazardVoiceMsg} \cup ComplimentSet
        IN  /\ red /\ bare =>
                 /\ out.tone = (IF isMuted THEN 0 ELSE 1)
                 /\ ~isMuted =>
                       /\ out.said # <<>>
                       /\ out.said[Len(out.said)] =
                             [text |-> expected, priority |-> "high"]
                       /\ speaking
            /\ ~(red /\ bare) => SaidTexts \subseteq others
            /\ ~red => out.tone = 0

\* C17 witness: a RED reading without posture alerts and without a
\* recommended action is processed unmuted
C17_Witness ==
    /\ out.act = "message"
    /\ analysis = <<RedBall>>
    /\ ~isMuted
    /\ out.tone = 1

\* C18: right after the stop step nothing is being announced.
C18_StopCancelsSpeech == out.act = "stop" => ~speaking


(***************************************************************************)
(* Properties of the session aggregator.                                   *)
(***************************************************************************)
\* the sum of the risks of the first k points of the risk history
RECURSIVE RiskTotal(_)
RiskTotal(k) == IF k = 0 THEN 0 ELSE riskHistory[k].risk + RiskTotal(k - 1)

\* n * clamp(100 - mean(risk), 0, 100) for the n points of the risk history
ScoreTimesN ==
    LET n == Len(riskHistory)
        raw == 100 * n - RiskTotal(n)
    IN  IF raw < 0 THEN 0 ELSE IF raw > 100 * n THEN 100 * n ELSE raw

\* what the summary must hold besides the average score
SummaryRest ==
    LET n == Len(riskHistory)
        st == sessionStats[1]
        elapsed == (now - startTimeRef) \div 1000
    IN  /\ \A i \in 1..n : st.peakRisk >= riskHistory[i].risk
        /\ \E i \in 1..n : st.peakRisk = riskHistory[i].risk
        /\ st.alertCount = Len(alerts)
        /\ 60 * st.min + st.sec = elapsed
        /\ st.sec \in 0..59

C20_DominantIncident ==
    out.act = "stop" /\ sessionStats # <<>> =>
        LET st == sessionStats[1]
            reds == {i \in DOMAIN alerts : alerts[i].alert_level = "RED"}
        IN  IF reds # {}
            THEN LET first == alerts[CHOOSE i \in reds : \A j \in reds : i <= j]
                 IN  /\ first.alert_message # "" =>
                            st.mostDangerousAct = first.alert_message
                     /\ first.alert_message = "" /\ first.injury_type # "" =>
                            st.mostDangerousAct = first.injury_type
                     /\ st.suggestion =
                          "Focus on form correction and avoid sudden, jerky movements."
            ELSE IF alerts # <<>>
            THEN /\ alerts[1].alert_message # "" =>
                        st.mostDangerousAct = alerts[1].alert_message
                 /\ st.suggestion =
                      "Pay attention to minor form deviations before they escalate."
            ELSE /\ st.mostDangerousAct = "None detected."
                 /\ st.suggestion = "Maintain this level of safety."

\* C20 witness: the log holds a YELLOW entry in front of two RED entries,
\* the newer of which has no message
C20_Witness ==
    /\ out.act = "stop"
    /\ Len(alerts) = 3
    /\ alerts[1].alert_level = "YELLOW"
    /\ alerts[2].alert_level = "RED"
    /\ alerts[2].alert_message = ""
    /\ alerts[3].alert_level = "RED"
    /\ sessionStats[1].mostDangerousAct = "ankle"


(***************************************************************************)
(* Properties of the overlay, the streak, the sport context and the rest.  *)
(***************************************************************************)
Abs(x) == IF x < 0 THEN 0 - x ELSE x

\* the distance of component c of landmark i to the target
Gap(i, c) == Abs(smoothedRef[i][c] - lerpTrace.target[i][c])

\* C21: after k smoothing steps towards a constant target every position
\* component is at 0.55^k = (11/20)^k times its first distance from the
\* target, no step increases the distance, and the visibility is the raw one.
C21_LerpConverges ==
    [][smoothedRef' # <<>> =>
          \A i \in DOMAIN smoothedRef' :
              /\ \A c \in 1..3 :
                    /\ LET first == Abs(lerpTrace'.start[i][c]
                                         - lerpTrace'.target[i][c])
                           k == lerpTrace'.steps
                       IN  /\ first % Power(20, k) = 0
                           /\ Gap(i, c)' = (first \div Power(20, k)) * Power(11, k)
                    /\ lerpTrace'.steps > 1 => Gap(i, c)' <= Gap(i, c)
              /\ smoothedRef'[i][4] = lerpTrace'.target[i][4]]_vars

\* C21 witness: three smoothing steps towards a target that differs from
\* the first frame
C21_Witness ==
    /\ lerpTrace.steps = 3
    /\ Len(smoothedRef) = 2
    /\ Gap(1, 1) > 0
    /\ Gap(2, 2) > 0

\* the smoothing steps never leave a remainder
LerpIsExact ==
    [][\A raw \in RawFrames :
          raw # <<>> /\ ~Snaps(raw) /\ lerpTrace.total < MaxLerpSteps =>
             \A i \in DOMAIN raw, c \in 1..3 :
                ((raw[i][c] - smoothedRef[i][c]) * LerpNum) % LerpDen = 0]_vars


\* C22: a reading with risk below 20 (a missing risk is 0) and level GREEN
\* adds one to the good streak, unless it completes the streak and the
\* reinforcement resets it; a reading with risk above 40 sets it to 0; any
\* other reading leaves it unchanged.
C22_StreakRule ==
    [][out'.act = "message" =>
          LET data == analysis'[1]
              risk == IF data.injury_probability < 0 THEN 0
                      ELSE data.injury_probability
          IN  IF risk < 20 /\ data.alert_level = "GREEN"
              THEN \/ goodStreak' = goodStreak + 1
                   \/ /\ goodStreak + 1 >= 50
                      /\ goodStreak' = 0
                      /\ lastCoachTime' = now
              ELSE IF risk > 40 THEN goodStreak' = 0
              ELSE goodStreak' = goodStreak]_vars

\* C22 witness: readings without a risk have built a streak, and a streak
\* has been completed and reset
C22_Witness ==
    /\ out.act = "message"
    /\ analysis = <<Blank>>
    /\ goodStreak = 1
    /\ NumReceived = 51
    /\ lastCoachTime = now


\* C23: every frame sent carries the sport that is selected when it is sent.
C23_FrameCarriesCurrentSport ==
    \A i \in DOMAIN out.frames : out.frames[i].sport = sport


\* C24: a reading with object risk above 80 and object speed above 30 that
\* arrives unmuted while the selected sport is cricket and more than 5000 ms
\* after the last hazard announcement hands the hazard announcement to the
\* speech engine at interrupt priority; no reading does while another sport
\* is selected.
C24_HazardFollowsSelectedSport ==
    [][out'.act = "message" =>
          LET data == analysis'[1]
              fast == data.object_risk > 80 /\ data.object_speed > 30
          IN  /\ fast /\ sport = "cricket" /\ ~isMuted
                   /\ now - lastCoachTime > 5000
                 => [text |-> HazardVoiceMsg, priority |-> "high"]
                       \in {out'.said[i] : i \in DOMAIN out'.said}
              /\ sport # "cricket" => ~HazardSaid']_vars


\* the pending callbacks that clear the banner
BannerTimers == {t \in BagToSet(timers) : t.kind = "banner"}

\* C25: a reading with posture alerts schedules a clearing of the banner
\* 4000 ms later; the callback that runs then leaves no banner, whatever
\* was received since; a banner never shows without a clearing pending, and
\* a banner that shows is eventually cleared.
C25_BannerClears ==
    /\ [][/\ out'.act = "message" /\ analysis'[1].posture_alerts # <<>> =>
                \E t \in BannerTimers' : t.due = now + 4000
          /\ out'.act = "banner" =>
                /\ postureWarning' = ""
                /\ \E t \in BannerTimers : t.due = now /\ t.delay = 4000]_vars
    /\ [](postureWarning # "" => BannerTimers # {})
    /\ (postureWarning # "" ~> postureWarning = "")

\* C25 witness: the callback of an earlier reading has run after a later
\* posture reading, whose own callback is still pending
C25_Witness ==
    /\ out.act = "banner"
    /\ postureWarning = ""
    /\ BannerTimers # {}
    /\ NumReceived >= 2


\* the band a colour stands for
BandOf(colour) ==
    CASE colour \in {"var(--primary)", "#22c55e"} -> "low"
      [] colour \in {"var(--alert-yellow)", "#f59e0b"} -> "medium"
      [] colour \in {"var(--alert-red)", "#ef4444"} -> "high"

\* C26: every colouring function puts a value under 35 or missing in the
\* low band, a value from 35 to under 70 in the medium band and a value of
\* 70 or more in the high band.
C26_SameBands ==
    painted.fn # "none" =>
        BandOf(painted.colour) =
            IF painted.value = Undefined \/ painted.value < 35 THEN "low"
            ELSE IF painted.value < 70 THEN "medium"
            ELSE "high"


\* C27: the identifiers of the alert log, which is kept newest first, are
\* strictly increasing in insertion order, so no two records share one.
C27_AlertIdsIncrease ==
    \A i, j \in DOMAIN alerts : i < j => alerts[i].id > alerts[j].id


\* C28: between handlers the connected indicator is true exactly when the
\* connection that sends go to is OPEN; stated here is the direction that
\* the close of a superseded connection must not break: while the current
\* connection is OPEN the indicator is true.
C28_ConnectedWhileCurrentOpen == ReadyState = "OPEN" => connected


\* C29: while streaming is off no reading is processed: the risk history,
\* the alert log, the current snapshot and the good streak stay as they
\* are and no announcement or tone is issued.
C29_QuietWhileOff ==
    [][~streaming /\ ~streaming' =>
          /\ UNCHANGED <<riskHistory, alerts, analysis, goodStreak>>
          /\ out'.said = <<>>
          /\ out'.tone = 0]_vars


\* C30: once the effect of a toggle has run, at most one capture timer is
\* active, and none is active while streaming is off.
C30_OneCaptureTimer ==
    EffectsDone =>
        /\ NumIntervals <= 1
        /\ ~streaming => NumIntervals = 0

=============================================================================
